---- MODULE Spec2Model ----
(***************************************************************************)
(* TraderId (nautilus_core/model/src/identifiers/trader_id.rs): a          *)
(* validated identifier wrapping an interned string handle (Ustr).         *)
(*                                                                         *)
(* Text is modelled as a sequence of bytes (naturals), so that byte-wise   *)
(* comparison, escaping and UTF-8 decoding are computed, not assumed.      *)
(* The interning table is a sequence of entries; a handle is an index      *)
(* into it.  ids maps each client variable that holds a TraderId to the    *)
(* handle in its `value` field.                                            *)
(***************************************************************************)
EXTENDS Integers, Sequences, FiniteSets

VARIABLES store, ids, last, aborted, made

vars == <<store, ids, last, aborted, made>>

(***************************************************************************)
(* Bounds and input sets                                                   *)
(***************************************************************************)
\* Longest text / C buffer enumerated exhaustively in SpecFn.
MaxLen == 3

\* Largest number of entries the interning table may hold in a run.
MaxStore == 3

\* The client's variables of type TraderId.
Slots == {"a", "b", "c"}

\* Bytes of the texts enumerated exhaustively: TAB, SPACE, '"', '-', 'A'.
Chars == {9, 32, 34, 45, 65}

\* Bytes of the C buffers enumerated exhaustively: NUL, SPACE, '-', 'A', 0xFF.
FfiBytes == {0, 32, 45, 65, 255}

StringsUpTo(alphabet, n) == UNION {[1..k -> alphabet] : k \in 0..n}

\* "TRADER-000"
DefaultText == <<84, 82, 65, 68, 69, 82, 45, 48, 48, 48>>

\* Inputs of the exhaustive single-call specification.
Inputs == StringsUpTo(Chars, MaxLen) \cup {DefaultText}

\* Inputs of the multi-call specification: "", "A", "A-", "-A", "TRADER-000".
Texts == {<<>>, <<65>>, <<65, 45>>, <<45, 65>>, DefaultText}

\* Texts written through the public field: "" and "A-".
SetTexts == {<<>>, <<65, 45>>}

\* A C pointer: NULL, or the bytes of a NUL-terminated buffer.
NullPtr == [null |-> TRUE, buf |-> <<>>]

CString(bytes) == [null |-> FALSE, buf |-> bytes \o <<0>>]

Ptrs == {NullPtr} \cup {CString(b) : b \in StringsUpTo(FfiBytes, MaxLen)}

\* NULL, "A-", "A-\0A", "A", "\xFF-", "TRADER-000".
MainPtrs == {NullPtr, CString(<<65, 45>>), CString(<<65, 45, 0, 65>>), CString(<<65>>),
             CString(<<255, 45>>), CString(DefaultText)}

Min(x, y) == IF x <= y THEN x ELSE y

(***************************************************************************)
(* Validator (nautilus_core::correctness), not part of the sources at      *)
(* hand: modelled from the specification, section 4.1.                     *)
(***************************************************************************)
IsWhitespace(b) == b \in {9, 10, 12, 13, 32}

valid_string(s) ==
    IF Len(s) = 0 \/ \A i \in 1..Len(s) : IsWhitespace(s[i])
    THEN "EmptyOrWhitespace"
    ELSE "Ok"

string_contains(s, needle) ==
    IF \E i \in 1..(Len(s) - Len(needle) + 1) :
           SubSeq(s, i, i + Len(needle) - 1) = needle
    THEN "Ok"
    ELSE "MissingSeparator"

(***************************************************************************)
(* Ustr: the interned string handle                                        *)
(***************************************************************************)
RECURSIVE HashFrom(_, _, _)
HashFrom(s, i, acc) ==
    IF i > Len(s) THEN acc ELSE HashFrom(s, i + 1, (31 * acc + s[i]) % 65536)

\* The hash computed once, when a text is first interned.
HashOf(s) == HashFrom(s, 1, 7)

Lookup(st, s) == {i \in 1..Len(st) : st[i].text = s}

InternNoDedup(st, s) ==
    [store |-> Append(st, [text |-> s, hash |-> HashOf(s)]), handle |-> Len(st) + 1]

\* Ustr::from(s): the existing entry of s, or a new one appended.
Intern(st, s) ==
    IF Lookup(st, s) # {}
    THEN [store |-> st, handle |-> CHOOSE i \in Lookup(st, s) : TRUE]
    ELSE [store |-> Append(st, [text |-> s, hash |-> HashOf(s)]), handle |-> Len(st) + 1]

\* Ustr::as_str
AsStr(st, h) == st[h].text

\* str::cmp: byte-wise lexicographic comparison, -1 / 0 / 1.
StrCmp(s, t) ==
    LET n == Min(Len(s), Len(t))
        diff == {i \in 1..n : s[i] # t[i]}
    IN  IF diff = {}
        THEN (IF Len(s) < Len(t) THEN -1 ELSE IF Len(s) > Len(t) THEN 1 ELSE 0)
        ELSE LET i == CHOOSE j \in diff : \A k \in diff : j <= k
             IN  IF s[i] < t[i] THEN -1 ELSE 1

\* Ord for Ustr: compares the texts, not the handles.
UstrCmpByHandle(st, h1, h2) == IF h1 < h2 THEN -1 ELSE IF h1 > h2 THEN 1 ELSE 0

UstrCmp(st, h1, h2) == StrCmp(AsStr(st, h1), AsStr(st, h2))

\* PartialEq for Ustr: handle identity.
UstrEqByHash(st, h1, h2) == st[h1].hash = st[h2].hash

UstrEq(st, h1, h2) == h1 = h2

\* Ustr::precomputed_hash: the hash cached in the entry.
PrecomputedHash(st, h) == st[h].hash

HexDigit(d) == IF d < 10 THEN 48 + d ELSE 87 + d

Hex(b) == IF b < 16 THEN <<HexDigit(b)>> ELSE <<HexDigit(b \div 16), HexDigit(b % 16)>>

\* char::escape_debug as used by Debug for str (ASCII range).
EscapeChar(b) ==
    CASE b = 0  -> <<92, 48>>
      [] b = 9  -> <<92, 116>>
      [] b = 10 -> <<92, 110>>
      [] b = 13 -> <<92, 114>>
      [] b = 34 -> <<92, 34>>
      [] b = 92 -> <<92, 92>>
      [] OTHER  -> IF b < 32 \/ b = 127
                   THEN <<92, 117, 123>> \o Hex(b) \o <<125>>
                   ELSE <<b>>

RECURSIVE EscapeFrom(_, _)
EscapeFrom(s, i) == IF i > Len(s) THEN <<>> ELSE EscapeChar(s[i]) \o EscapeFrom(s, i + 1)

\* Debug for str: the escaped text between double quotes.
StrDebug(s) == <<34>> \o EscapeFrom(s, 1) \o <<34>>

\* Display for Ustr: the text as it is.
UstrDisplay(st, h) == AsStr(st, h)

\* Debug for Ustr: u!("...").
UstrDebug(st, h) == <<117, 33, 40>> \o StrDebug(AsStr(st, h)) \o <<41>>

(***************************************************************************)
(* TraderId                                                                *)
(***************************************************************************)
\* derive(PartialEq, Eq), derive(PartialOrd, Ord), derive(Hash) on the one field.
IdEq(st, a, b) == UstrEq(st, a, b)

IdCmp(st, a, b) == UstrCmp(st, a, b)

IdLess(st, a, b) == IdCmp(st, a, b) = -1

\* Display for TraderId
DisplayAsDebug(st, id) == UstrDebug(st, id)

Display(st, id) == UstrDisplay(st, id)

\* Debug for TraderId
Debug(st, id) == UstrDebug(st, id)

\* trader_id_hash
trader_id_hash(st, id) == PrecomputedHash(st, id)

\* The checks of TraderId::new, in order: the first failure is the result.
ValidateSeparatorFirst(s) ==
    IF string_contains(s, <<45>>) # "Ok" THEN string_contains(s, <<45>>)
    ELSE valid_string(s)

ValidateNoSeparatorCheck(s) == valid_string(s)

Validate(s) ==
    IF valid_string(s) # "Ok" THEN valid_string(s)
    ELSE string_contains(s, <<45>>)

\* CStr::from_ptr: the bytes before the first NUL.
CStrFromPtr(buf) ==
    LET nul == CHOOSE i \in 1..Len(buf) : buf[i] = 0 /\ \A j \in 1..(i - 1) : buf[j] # 0
    IN  SubSeq(buf, 1, nul - 1)

\* CStr::to_str succeeds on valid UTF-8; of the bytes drawn here every one
\* below 0x80 is a character and 0xFF never occurs in UTF-8.
Utf8Valid(bytes) == \A i \in 1..Len(bytes) : bytes[i] < 128

Bind(slot, h) == [sl \in (DOMAIN ids) \cup {slot} |-> IF sl = slot THEN h ELSE ids[sl]]

Interned(s) == Lookup(store, s) # {}

HasRoom(s) == Interned(s) \/ Len(store) < MaxStore

Last(op, arg, null, res, slot) ==
    [op |-> op, arg |-> arg, null |-> null, res |-> res, slot |-> slot]

\* made is history: the value last returned by default() and the value last
\* returned by new("TRADER-000").
Construct(op, slot, arg, null, s) ==
    LET r == Intern(store, s)
    IN  /\ HasRoom(s)
        /\ store' = r.store
        /\ ids' = Bind(slot, r.handle)
        /\ last' = Last(op, arg, null, "Ok", slot)
        /\ made' = IF op = "default" \/ (op = "new" /\ arg = DefaultText)
                   THEN [made EXCEPT ![op] = {r.handle}]
                   ELSE made
        /\ UNCHANGED aborted

Reject(op, arg, null, res) ==
    /\ last' = Last(op, arg, null, res, "none")
    /\ UNCHANGED <<store, ids, aborted, made>>

Abort(op, arg, null) ==
    /\ aborted' = TRUE
    /\ last' = Last(op, arg, null, "Abort", "none")
    /\ UNCHANGED <<store, ids, made>>

\* let slot = TraderId::new(s)?
NewInternsFirst(slot, s) ==
    /\ ~aborted
    /\ IF Validate(s) = "Ok"
       THEN Construct("new", slot, s, FALSE, s)
       ELSE /\ HasRoom(s)
            /\ store' = Intern(store, s).store
            /\ last' = Last("new", s, FALSE, Validate(s), "none")
            /\ UNCHANGED <<ids, aborted, made>>

New(slot, s) ==
    /\ ~aborted
    /\ IF Validate(s) = "Ok"
       THEN Construct("new", slot, s, FALSE, s)
       ELSE Reject("new", s, FALSE, Validate(s))

\* let slot = TraderId::default()
DefaultOtherText(slot) ==
    /\ ~aborted
    /\ Construct("default", slot, <<>>, FALSE, <<84, 82, 65, 68, 69, 82, 45, 48, 48, 49>>)

Default(slot) ==
    /\ ~aborted
    /\ Construct("default", slot, <<>>, FALSE, DefaultText)

\* let slot = trader_id_new(ptr)
TraderIdNewOrDefault(slot, ptr) ==
    /\ ~aborted
    /\ IF ptr.null
       THEN Abort("ffi", ptr.buf, TRUE)
       ELSE IF ~Utf8Valid(CStrFromPtr(ptr.buf))
       THEN Abort("ffi", ptr.buf, FALSE)
       ELSE IF Validate(CStrFromPtr(ptr.buf)) # "Ok"
       THEN Construct("ffi", slot, ptr.buf, FALSE, DefaultText)
       ELSE Construct("ffi", slot, ptr.buf, FALSE, CStrFromPtr(ptr.buf))

TraderIdNew(slot, ptr) ==
    /\ ~aborted
    /\ IF ptr.null
       THEN Abort("ffi", ptr.buf, TRUE)
       ELSE IF ~Utf8Valid(CStrFromPtr(ptr.buf))
       THEN Abort("ffi", ptr.buf, FALSE)
       ELSE IF Validate(CStrFromPtr(ptr.buf)) # "Ok"
       THEN Abort("ffi", ptr.buf, FALSE)
       ELSE Construct("ffi", slot, ptr.buf, FALSE, CStrFromPtr(ptr.buf))

\* let to = from   (TraderId is Copy)
Copy(from, to) ==
    /\ ~aborted
    /\ from \in DOMAIN ids
    /\ ids' = Bind(to, ids[from])
    /\ last' = Last("copy", <<>>, FALSE, "Ok", to)
    /\ UNCHANGED <<store, aborted, made>>

\* slot.value = Ustr::from(t)   (the field is pub)
SetValue(slot, t) ==
    /\ ~aborted
    /\ slot \in DOMAIN ids
    /\ HasRoom(t)
    /\ store' = Intern(store, t).store
    /\ ids' = Bind(slot, Intern(store, t).handle)
    /\ last' = Last("set", t, FALSE, "Ok", slot)
    /\ UNCHANGED <<aborted, made>>

Init ==
    /\ store = <<>>
    /\ ids = [sl \in {} |-> 0]
    /\ last = Last("init", <<>>, FALSE, "Ok", "none")
    /\ aborted = FALSE
    /\ made = [default |-> {}, new |-> {}]

Next ==
    \/ \E slot \in Slots, s \in Texts : New(slot, s)
    \/ \E slot \in Slots : Default(slot)
    \/ \E slot \in Slots, ptr \in MainPtrs : TraderIdNew(slot, ptr)
    \/ \E from \in Slots, to \in Slots : Copy(from, to)
    \/ \E slot \in Slots, t \in SetTexts : SetValue(slot, t)

Spec == Init /\ [][Next]_vars

\* One call of a constructor on an empty table, for every input up to MaxLen.
NextFn ==
    /\ last.op = "init"
    /\ \/ \E slot \in Slots, s \in Inputs : New(slot, s)
       \/ \E slot \in Slots, ptr \in Ptrs : TraderIdNew(slot, ptr)

SpecFn == Init /\ [][NextFn]_vars

(***************************************************************************)
(* Properties                                                              *)
(***************************************************************************)
AllWhite(s) == \A i \in 1..Len(s) : s[i] \in {9, 10, 12, 13, 32}

HasHyphen(s) == \E i \in 1..Len(s) : s[i] = 45

\* Non-empty, not only whitespace, at least one '-'.
ValidText(s) == Len(s) > 0 /\ ~AllWhite(s) /\ HasHyphen(s)

\* s is byte-lexicographically less than t: after a common prefix of k bytes,
\* s ends and t goes on, or the next byte of s is the smaller one.
LexLess(s, t) ==
    \E k \in 0..Min(Len(s), Len(t)) :
        /\ \A i \in 1..k : s[i] = t[i]
        /\ \/ k = Len(s) /\ k < Len(t)
           \/ k < Len(s) /\ k < Len(t) /\ s[k + 1] < t[k + 1]

\* The text a C buffer holds: its longest prefix free of NUL.
TextBeforeNul(buf) ==
    LET k == CHOOSE n \in 0..Len(buf) :
                 /\ \A i \in 1..n : buf[i] # 0
                 /\ n < Len(buf) => buf[n + 1] = 0
    IN  SubSeq(buf, 1, k)

Held == DOMAIN ids

TextOf(sl) == AsStr(store, ids[sl])

\* C1: every TraderId that exists has a text that is non-empty, not only
\* whitespace, and contains a '-', whatever public operations ran (writes to
\* the public `value` field included).
C1_EveryIdValid == \A sl \in Held : ValidText(TextOf(sl))

\* C2: for every s that is non-empty, not all whitespace and contains '-',
\* new(s) succeeds and the display form of the result is s itself.
C2_NewRoundTrip ==
    (last.op = "new" /\ ValidText(last.arg)) =>
        /\ last.res = "Ok"
        /\ last.slot \in Held
        /\ Display(store, ids[last.slot]) = last.arg

C2_Witness ==
    /\ last.op = "new"
    /\ ValidText(last.arg)
    /\ Len(last.arg) >= 2
    /\ \E i \in 1..Len(last.arg) : last.arg[i] = 34
    /\ last.slot \in Held

\* C3: for every s without '-', new(s) returns an InvalidValue error and no
\* identifier.
C3_NoHyphenFails ==
    (last.op = "new" /\ ~HasHyphen(last.arg)) =>
        /\ last.res \in {"EmptyOrWhitespace", "MissingSeparator"}
        /\ last.slot = "none"

C3_Witness ==
    /\ last.op = "new"
    /\ ~HasHyphen(last.arg)
    /\ Len(last.arg) > 0
    /\ ~AllWhite(last.arg)
    /\ last.res = "MissingSeparator"

\* C4: for every empty or all-whitespace s, new(s) fails with the
\* empty/whitespace reason, never with the missing-separator reason.
C4_EmptyReasonFirst ==
    (last.op = "new" /\ (Len(last.arg) = 0 \/ AllWhite(last.arg))) =>
        /\ last.res = "EmptyOrWhitespace"
        /\ last.slot = "none"

C4_Witness ==
    /\ last.op = "new"
    /\ Len(last.arg) >= 2
    /\ AllWhite(last.arg)
    /\ last.res = "EmptyOrWhitespace"

\* C5: two identifiers are equal exactly when their texts are byte-for-byte
\* equal, equal texts give equal hashes, and the identifier new(s) just
\* returned is equal to exactly the identifiers whose text is s.
C5_EqIffSameText ==
    /\ \A a \in Held, b \in Held :
          /\ IdEq(store, ids[a], ids[b]) <=> (TextOf(a) = TextOf(b))
          /\ (TextOf(a) = TextOf(b)) =>
                 trader_id_hash(store, ids[a]) = trader_id_hash(store, ids[b])
    /\ (last.op = "new" /\ last.res = "Ok") =>
          \A b \in Held : IdEq(store, ids[last.slot], ids[b]) <=> (TextOf(b) = last.arg)

C5_Witness ==
    /\ last.op = "new"
    /\ last.res = "Ok"
    /\ \E b \in Held \ {last.slot} : ids[b] = ids[last.slot]
    /\ \E c \in Held : ids[c] # ids[last.slot]

\* C6: a < b exactly when text(a) is byte-lexicographically less than
\* text(b); exactly one of a < b, a == b, b < a holds; a compares Equal to b
\* exactly when a == b; and a < b, b < c imply a < c.
C6_OrderIsLexicographic ==
    \A a \in Held, b \in Held :
        /\ IdLess(store, ids[a], ids[b]) <=> LexLess(TextOf(a), TextOf(b))
        /\ (IdCmp(store, ids[a], ids[b]) = 0) <=> IdEq(store, ids[a], ids[b])
        /\ (IdCmp(store, ids[a], ids[b]) = 1) <=> IdLess(store, ids[b], ids[a])
        /\ \A c \in Held :
              (IdLess(store, ids[a], ids[b]) /\ IdLess(store, ids[b], ids[c]))
                  => IdLess(store, ids[a], ids[c])

\* Three identifiers in strictly increasing order, interned in another order.
C6_Witness ==
    \E a \in Held, b \in Held, c \in Held :
        /\ IdLess(store, ids[a], ids[b])
        /\ IdLess(store, ids[b], ids[c])
        /\ ids[a] > ids[b]
        /\ \A sl \in Held : ValidText(TextOf(sl))

\* C7: a call of new that fails validation leaves the interning table (and
\* every identifier) as it was.
C7_FailedNewInternsNothing ==
    [][(last'.op = "new" /\ last'.res # "Ok") => (store' = store /\ ids' = ids)]_vars

C7_Witness ==
    /\ last.op = "new"
    /\ last.res # "Ok"
    /\ Len(store) > 0
    /\ Lookup(store, last.arg) = {}

\* C8: trader_id_new on a non-null pointer to valid UTF-8 text that passes
\* validation returns the identifier of that text, equal to every identifier
\* already built from it; on a null pointer, a non-UTF-8 buffer or invalid
\* text the process aborts and nothing is returned.
C8_FfiAgreesWithNew ==
    /\ aborted => last.res = "Abort"
    /\ last.op = "ffi" =>
          IF /\ ~last.null
             /\ \A i \in 1..Len(TextBeforeNul(last.arg)) : TextBeforeNul(last.arg)[i] < 128
             /\ ValidText(TextBeforeNul(last.arg))
          THEN /\ ~aborted
               /\ last.res = "Ok"
               /\ last.slot \in Held
               /\ Display(store, ids[last.slot]) = TextBeforeNul(last.arg)
               /\ \A b \in Held :
                     (TextOf(b) = TextBeforeNul(last.arg))
                         <=> IdEq(store, ids[last.slot], ids[b])
          ELSE /\ aborted
               /\ last.res = "Abort"
               /\ last.slot = "none"

C8_Witness ==
    /\ last.op = "ffi"
    /\ last.res = "Ok"
    /\ Len(last.arg) > Len(TextBeforeNul(last.arg)) + 1
    /\ \E b \in Held \ {last.slot} : ids[b] = ids[last.slot]

\* C9: for every valid identifier the debug rendering is exactly the display
\* text between two double quotes.
C9_DebugIsQuotedDisplay ==
    \A sl \in Held :
        ValidText(TextOf(sl)) =>
            Debug(store, ids[sl]) = <<34>> \o Display(store, ids[sl]) \o <<34>>

\* C10: the value of default() equals the value of new("TRADER-000"): same
\* text, same identifier, same hash, in whichever order they were built and
\* whatever was built in between; and new("TRADER-000") succeeds.
C10_DefaultEqualsNew ==
    /\ \A d \in made.default :
          /\ AsStr(store, d) = DefaultText
          /\ \A n \in made.new :
                /\ IdEq(store, d, n)
                /\ AsStr(store, n) = AsStr(store, d)
                /\ trader_id_hash(store, d) = trader_id_hash(store, n)
    /\ (last.op = "new" /\ last.arg = DefaultText) => last.res = "Ok"

C10_Witness ==
    /\ made.default # {}
    /\ made.new # {}
    /\ Len(store) > 1

====
